---- MODULE Spec2Model ----
(***************************************************************************)
(* Model of the real-time error alert pipeline:                            *)
(*   log_watcher_component.py  LogFileHandler (tailing, classification)    *)
(*   notification_manager.py   RateLimiter, NotificationManager            *)
(*   log_monitor_main.py       LogMonitorDemo.handle_error_detected        *)
(*                                                                         *)
(* The log file is a sequence of bytes.  Every byte written carries a      *)
(* history identifier (id) so that "the same byte" can be told from "an    *)
(* equal byte written later"; the program never looks at the id.           *)
(***************************************************************************)
EXTENDS Integers, Sequences, FiniteSets, TLC

\* ---------------------------------------------------------------- bounds
MaxWrites == 4      \* bytes ever written to the log file (initial content included)
MaxInit == 2        \* bytes already in the file when the handler is constructed
MaxClock == 5       \* last clock value of a run
MaxInterval == 3    \* largest configured rate_limit_seconds
MaxLine == 4        \* symbols of a log line handed to _process_log_line
MaxText == 2        \* symbols after "<timestamp> <LEVEL>: " in a well-formed line
ClockStart == 2     \* clock value at construction
NumThreads == 2     \* concurrent callers of the rate limiter

\* ---------------------------------------------------------------- alphabet
NL == "\n"
SP == " "
Chars == {NL, SP, "E", "F"}
Whitespace == {NL, SP}
\* keyword lists of the configuration (ordered, possibly empty); the list
\* <<"E", "F">> is <<"F", "E">> with the two letters exchanged
KeywordLists == {<<>>, <<"E">>, <<"F", "E">>}
Intervals == 0..MaxInterval
Threads == 1..NumThreads
None == -1

VARIABLES
  file,                   \* content of the log file: Seq of [ch, id]
  exists,                 \* the log file exists
  nextId,                 \* history: id of the next byte written
  initLen,                \* history: file size at construction
  error_keywords,         \* LogFileHandler.error_keywords
  last_position,          \* LogFileHandler.last_position
  current_size,           \* size observed by the most recent size check
  pc,                     \* position of the watch thread: idle / read / lines
  new_lines,              \* lines of the batch not yet processed
  min_interval,           \* RateLimiter.min_interval
  last_notification_time, \* RateLimiter.last_notification_time
  now,                    \* time.time()
  email_notifier,         \* NotificationManager.email_notifier is not None
  slack_notifier,         \* NotificationManager.slack_notifier is not None
  granted,                \* result of the last gate check
  attempted,              \* sinks whose send_*_alert ran in the last dispatch
  email_sent,             \* result of the last send_email_alert
  slack_sent,             \* result of the last send_slack_alert
  any_sent,               \* results['any_sent'] of the last send_all_alerts
  delivered,              \* history: sinks that received the last dispatch
  prevGrant,              \* history: time of the last grant since the last reset
  emitted,                \* history: ids of bytes passed to _process_log_line
  alerted,                \* history: ids of bytes passed to the callback
  reported,               \* the error_info records the callback got for the last line
  truncated,              \* history: how the file shrank since the last size check
  short_read,             \* history: the last read returned fewer bytes than asked
  tpc,                    \* per thread: position inside should_send_notification
  t_current_time,         \* per thread: local current_time
  t_time_since_last,      \* per thread: local time_since_last
  t_granted,              \* per thread: time of its last granted call, or None
  raised,                 \* an exception left the last dispatch
  resetAt,                \* history: time of the last reset() that cut a window short
  h_pc,                   \* per event thread: position inside on_modified
  h_size,                 \* per event thread: local current_size
  h_pos,                  \* per event thread: offset of its open file object
  h_content,              \* per event thread: local new_content
  d_pc,                   \* position inside a send_all_alerts executed stepwise
  sending,                \* sinks whose send_alert is executing
  phase,                  \* position of the main thread: new / running / join / exited
  observer,               \* the watchdog observer thread: unstarted / alive / stopping / stopped
  running,                \* LogMonitorDemo.running
  exit_code,              \* exit status of the process, or None while it runs
  readable,               \* os.access(log_file_path, R_OK)
  creatable,              \* the log file and its directories can be created
  config,                 \* the sink sections of config.ini, as ConfigManager reads them
  manager,                \* NotificationManager(config): new / constructed / failed
  op                      \* history: label of the last step

tailVars == <<file, exists, nextId, initLen, error_keywords, last_position,
              current_size, pc, new_lines, emitted, alerted, reported,
              truncated, short_read>>
sinkVars == <<attempted, email_sent, slack_sent, any_sent, delivered, raised>>
gateVars == <<last_notification_time, granted, prevGrant, resetAt>>
confVars == <<min_interval, email_notifier, slack_notifier, config, manager>>
threadVars == <<tpc, t_current_time, t_time_since_last, t_granted>>
eventVars == <<h_pc, h_size, h_pos, h_content>>
dispatchVars == <<d_pc, sending>>
stopVars == <<phase, observer, running, exit_code, readable, creatable>>
auxVars == <<eventVars, dispatchVars, stopVars>>
vars == <<tailVars, sinkVars, gateVars, confVars, threadVars, auxVars, now, op>>

\* ---------------------------------------------------------------- helpers
Min(a, b) == IF a <= b THEN a ELSE b

Ids(s) == {s[i].id : i \in 1..Len(s)}

Text(s) == [i \in 1..Len(s) |-> s[i].ch]

\* variant of GetFileSize that answers a missing file with the last offset
GetFileSizeStale == IF exists THEN Len(file) ELSE last_position

\* os.path.getsize with the OSError fallback
GetFileSize == IF exists THEN Len(file) ELSE 0

RECURSIVE LStrip(_)
LStrip(s) ==
  IF s = <<>> THEN <<>>
  ELSE IF Head(s).ch \in Whitespace THEN LStrip(Tail(s)) ELSE s

RECURSIVE RStrip(_)
RStrip(s) ==
  IF s = <<>> THEN <<>>
  ELSE IF s[Len(s)].ch \in Whitespace THEN RStrip(SubSeq(s, 1, Len(s) - 1)) ELSE s

\* str.strip()
Strip(s) == RStrip(LStrip(s))

\* str.split('\n'): cur is the fragment being collected
RECURSIVE SplitNL(_, _)
SplitNL(s, cur) ==
  IF s = <<>> THEN <<cur>>
  ELSE IF Head(s).ch = NL THEN <<cur>> \o SplitNL(Tail(s), <<>>)
  ELSE SplitNL(Tail(s), Append(cur, Head(s)))

\* variant of Split that returns the lines last first
SplitLastFirst(s) ==
  LET l == SplitNL(s, <<>>) IN [i \in 1..Len(l) |-> l[Len(l) + 1 - i]]

Split(s) == SplitNL(s, <<>>)

\* The text of a log line is a sequence of symbols, each standing for a
\* piece of text:
\*   "T"  a timestamp YYYY-MM-DD HH:MM:SS      "E"  the word ERROR
\*   "e"  the word error, not in upper case    "F"  the word FAIL
\*   "W"  the word WARNING                     "U"  the word UNKNOWN
\*   "x"  other letters                        ":" and " " themselves
\* Symbols of WordChars written side by side form one longer word.
LineChars == {"T", SP, ":", "E", "e", "W", "x", "U"}
WordChars == {"T", "E", "e", "F", "W", "U", "x"}

\* str.upper(), and what re.IGNORECASE compares
Upper(c) == IF c = "e" THEN "E" ELSE c

\* pattern.search(line) for a one-symbol keyword compiled with re.IGNORECASE
Search(keyword, line) ==
  \E i \in 1..Len(line) : Upper(line[i].ch) = Upper(keyword)

\* str.strip(chars) on a text
StripOf(t, chars) ==
  LET keep == {i \in 1..Len(t) : t[i] \notin chars}
  IN  IF keep = {} THEN <<>>
      ELSE SubSeq(t, CHOOSE i \in keep : \A j \in keep : i <= j,
                     CHOOSE i \in keep : \A j \in keep : i >= j)

\* the words of the two level_patterns, in the order they are tried
level_patterns == << {"E", "F"}, {"W"} >>

\* the loop over timestamp_patterns; "NOW" is datetime.now() formatted
ExtractTimestamp(t) ==
  IF \E i \in 1..Len(t) : t[i] = "T" THEN "T" ELSE "NOW"

\* variant of ExtractLevel that takes the leftmost level word of either class
ExtractLevelLeftmost(t) ==
  LET hits == {i \in 1..Len(t) :
                 /\ Upper(t[i]) \in level_patterns[1] \cup level_patterns[2]
                 /\ (i = 1 \/ t[i - 1] \notin WordChars)
                 /\ (i = Len(t) \/ t[i + 1] \notin WordChars)}
  IN  IF hits # {} THEN Upper(t[CHOOSE i \in hits : \A j \in hits : i <= j])
      ELSE "U"

\* the loop over level_patterns: re.search(r'\b(...)\b', line, re.IGNORECASE)
\* and match.group(1).upper(); the level UNKNOWN is the symbol "U"
ExtractLevel(t) ==
  LET hits(k) == {i \in 1..Len(t) :
                    /\ Upper(t[i]) \in level_patterns[k]
                    /\ (i = 1 \/ t[i - 1] \notin WordChars)
                    /\ (i = Len(t) \/ t[i + 1] \notin WordChars)}
      first(k) == CHOOSE i \in hits(k) : \A j \in hits(k) : i <= j
  IN  IF hits(1) # {} THEN Upper(t[first(1)])
      ELSE IF hits(2) # {} THEN Upper(t[first(2)])
      ELSE "U"

\* "if extracted_level in line": line.split(extracted_level, 1)[1]
\* .strip(':').strip(), otherwise the line; then message.strip()
ExtractMessage(t, level) ==
  LET hits == {i \in 1..Len(t) : t[i] = level}
      first == CHOOSE i \in hits : \A j \in hits : i <= j
  IN  IF hits = {} THEN StripOf(t, Whitespace)
      ELSE StripOf(StripOf(SubSeq(t, first + 1, Len(t)), {":"}), Whitespace)

\* _extract_error_info (detected_at, a second reading of the clock, is left out)
ErrorInfo(line, keyword) ==
  [timestamp |-> ExtractTimestamp(Text(line)),
   level |-> ExtractLevel(Text(line)),
   message |-> ExtractMessage(Text(line), ExtractLevel(Text(line))),
   line |-> Text(Strip(line)),
   matched_keyword |-> keyword]

\* variant of ProcessLogLine without the break after the callback
RECURSIVE ProcessLogLineNoBreak(_, _, _)
ProcessLogLineNoBreak(kws, line, i) ==
  IF i > Len(kws) THEN <<>>
  ELSE IF Search(kws[i], line)
         THEN <<ErrorInfo(line, kws[i])>> \o ProcessLogLineNoBreak(kws, line, i + 1)
  ELSE ProcessLogLineNoBreak(kws, line, i + 1)

\* variant of ProcessLogLine in which an empty keyword list matches every line
RECURSIVE ProcessLogLineAny(_, _, _)
ProcessLogLineAny(kws, line, i) ==
  IF i > Len(kws) THEN (IF kws = <<>> THEN <<ErrorInfo(line, "")>> ELSE <<>>)
  ELSE IF Search(kws[i], line) THEN <<ErrorInfo(line, kws[i])>>
  ELSE ProcessLogLineAny(kws, line, i + 1)

\* the loop of _process_log_line over zip(error_patterns, error_keywords),
\* from pattern i on: the records handed to the callback, in order
RECURSIVE ProcessLogLine(_, _, _)
ProcessLogLine(kws, line, i) ==
  IF i > Len(kws) THEN <<>>
  ELSE IF Search(kws[i], line) THEN <<ErrorInfo(line, kws[i])>>
  ELSE ProcessLogLine(kws, line, i + 1)

\* variant of ResetPosition that also resets when the size is unchanged
ResetPositionOnEqual(cs, lp) == IF cs <= lp THEN 0 ELSE lp

\* variant of ResetPosition that never resets
ResetPositionNever(cs, lp) == lp

\* variant of ResetPosition that moves to the new end of the file
ResetPositionToEnd(cs, lp) == IF cs < lp THEN cs ELSE lp

\* the truncation test of on_modified: the position the read starts from
ResetPosition(cs, lp) == IF cs < lp THEN 0 ELSE lp

\* ---------------------------------------------------------------- initial states
\* contents the file can have when the handler is constructed: byte i has id i
InitFiles ==
  UNION {[1..n -> Chars] : n \in 0..MaxInit}

MkFile(f) == [i \in 1..Len(f) |-> [ch |-> f[i], id |-> i]]

\* LogFileHandler.__init__ on a file that exists (_validate_log_file):
\* last_position is the file size
InitHandler ==
  /\ \E f \in InitFiles :
       /\ file = MkFile(f)
       /\ nextId = Len(f) + 1
       /\ initLen = Len(f)
       /\ last_position = Len(f)
       /\ current_size = Len(f)
  /\ exists = TRUE
  /\ pc = "idle"
  /\ new_lines = <<>>
  /\ emitted = {}
  /\ alerted = {}
  /\ reported = <<>>
  /\ truncated = "no"
  /\ short_read = FALSE

\* RateLimiter.__init__ and the results of a dispatch before any dispatch
InitNotifier ==
  /\ last_notification_time = 0
  /\ now = ClockStart
  /\ granted = FALSE
  /\ attempted = {}
  /\ email_sent = FALSE
  /\ slack_sent = FALSE
  /\ any_sent = FALSE
  /\ delivered = {}
  /\ raised = FALSE
  /\ prevGrant = None
  /\ resetAt = None

\* no caller is inside should_send_notification
InitThreads ==
  /\ tpc = [t \in Threads |-> "idle"]
  /\ t_current_time = [t \in Threads |-> 0]
  /\ t_time_since_last = [t \in Threads |-> 0]
  /\ t_granted = [t \in Threads |-> None]

\* what config.get returns for an option: None when it is absent, the empty
\* string, or a value
Fields == {"absent", "empty", "set"}

\* the [email] and [slack] sections of a configuration file; an option of a
\* section that is absent is absent
Configs ==
  {c \in [email_section : BOOLEAN, sender_email : Fields,
          sender_password : Fields, recipient_emails : Fields,
          slack_section : BOOLEAN, webhook_url : Fields] :
     /\ (~c.email_section =>
           /\ c.sender_email = "absent"
           /\ c.sender_password = "absent"
           /\ c.recipient_emails = "absent")
     /\ (~c.slack_section => c.webhook_url = "absent")}

\* a configuration file with every option set for the sinks that are enabled
CompleteConfig(email, slack) ==
  [email_section |-> email,
   sender_email |-> IF email THEN "set" ELSE "absent",
   sender_password |-> IF email THEN "set" ELSE "absent",
   recipient_emails |-> IF email THEN "set" ELSE "absent",
   slack_section |-> slack,
   webhook_url |-> IF slack THEN "set" ELSE "absent"]

\* the manager has been constructed from a complete configuration
InitConfig ==
  /\ config = CompleteConfig(email_notifier, slack_notifier)
  /\ manager = "constructed"

\* no change event is being handled by a second thread
InitEvents ==
  /\ h_pc = [t \in Threads |-> "idle"]
  /\ h_size = [t \in Threads |-> 0]
  /\ h_pos = [t \in Threads |-> 0]
  /\ h_content = [t \in Threads |-> <<>>]

\* no stepwise dispatch is under way
InitDispatch ==
  /\ d_pc = "idle"
  /\ sending = {}

\* LogMonitorDemo.start has started the observer on a readable file
InitStarted ==
  /\ phase = "running"
  /\ observer = "alive"
  /\ running = TRUE
  /\ exit_code = None
  /\ readable = TRUE
  /\ creatable = TRUE

\* the handler with a callback that touches nothing of the notifier
\* (the module's own test_callback): any keyword list, default notifier
Init ==
  /\ InitHandler
  /\ error_keywords \in KeywordLists
  /\ InitNotifier
  /\ min_interval = 0
  /\ email_notifier = FALSE
  /\ slack_notifier = FALSE
  /\ InitThreads
  /\ InitConfig
  /\ InitEvents
  /\ InitDispatch
  /\ InitStarted
  /\ op = "init"

\* ---------------------------------------------------------------- the clock
Tick ==
  /\ now < MaxClock
  /\ now' = now + 1
  /\ op' = "tick"
  /\ UNCHANGED <<tailVars, sinkVars, gateVars, confVars, threadVars, auxVars>>

\* ---------------------------------------------------------------- the writers of the log file
AppendByte(c) ==
  /\ nextId <= MaxWrites
  /\ file' = Append(file, [ch |-> c, id |-> nextId])
  /\ exists' = TRUE
  /\ nextId' = nextId + 1
  /\ op' = "append"
  /\ UNCHANGED <<initLen, error_keywords, last_position, current_size, pc,
                 new_lines, emitted, alerted, reported, truncated, short_read>>
  /\ UNCHANGED <<sinkVars, gateVars, confVars, threadVars, auxVars, now>>

AppendToLog == \E c \in Chars : AppendByte(c)

\* a logger appends one whole non-blank line, the character c and the
\* newline, at once
WriteLine(c) ==
  /\ nextId + 1 <= MaxWrites
  /\ file' = file \o <<[ch |-> c, id |-> nextId], [ch |-> NL, id |-> nextId + 1]>>
  /\ exists' = TRUE
  /\ nextId' = nextId + 2
  /\ op' = "append"
  /\ UNCHANGED <<initLen, error_keywords, last_position, current_size, pc,
                 new_lines, emitted, alerted, reported, truncated, short_read>>
  /\ UNCHANGED <<sinkVars, gateVars, confVars, threadVars, auxVars, now>>

WriteLogLine == \E c \in Chars \ Whitespace : WriteLine(c)

\* the file is shrunk to its first k bytes (k = 0: emptied)
TruncateTo(k) ==
  /\ exists
  /\ k < Len(file)
  /\ file' = SubSeq(file, 1, k)
  /\ truncated' = IF k = 0 THEN "emptied" ELSE "shrunk"
  /\ op' = "truncate"
  /\ UNCHANGED <<exists, nextId, initLen, error_keywords, last_position,
                 current_size, pc, new_lines, emitted, alerted, reported, short_read>>
  /\ UNCHANGED <<sinkVars, gateVars, confVars, threadVars, auxVars, now>>

TruncateLog == \E k \in 0..MaxWrites : TruncateTo(k)

\* the file is removed (a later append re-creates it)
DeleteLog ==
  /\ exists
  /\ exists' = FALSE
  /\ file' = <<>>
  /\ truncated' = "emptied"
  /\ op' = "delete"
  /\ UNCHANGED <<nextId, initLen, error_keywords, last_position, current_size,
                 pc, new_lines, emitted, alerted, reported, short_read>>
  /\ UNCHANGED <<sinkVars, gateVars, confVars, threadVars, auxVars, now>>

\* ---------------------------------------------------------------- RateLimiter
\* variant of Permit that also wants the clock to have moved
PermitLater(t, last) == t - last >= min_interval /\ t > last

\* variant of Permit with a strict comparison
PermitStrict(t, last) == t - last > min_interval

\* the test of should_send_notification: t is current_time, last is
\* last_notification_time
Permit(t, last) == t - last >= min_interval

\* variant of Gate that grants without recording the time of the grant
GateUnrecorded(last) ==
  /\ granted' = Permit(now, last)
  /\ last_notification_time' = last
  /\ prevGrant' = IF Permit(now, last) THEN now
                  ELSE IF last = last_notification_time THEN prevGrant ELSE None
  /\ resetAt' = IF last = last_notification_time THEN resetAt
                ELSE IF prevGrant # None /\ now - prevGrant < min_interval
                       THEN now ELSE None

\* should_send_notification executed without interruption, entered with
\* last_notification_time = last
Gate(last) ==
  /\ granted' = Permit(now, last)
  /\ last_notification_time' = IF Permit(now, last) THEN now ELSE last
  /\ prevGrant' = IF Permit(now, last) THEN now
                  ELSE IF last = last_notification_time THEN prevGrant ELSE None
  /\ resetAt' = IF last = last_notification_time THEN resetAt
                ELSE IF prevGrant # None /\ now - prevGrant < min_interval
                       THEN now ELSE None

ShouldSendNotification == Gate(last_notification_time)

\* ---------------------------------------------------------------- EmailNotifier, SlackNotifier
\* what the transport of a sink does with one message: it is delivered, the
\* connection times out, the server refuses the credentials, the server
\* answers with an error status, or the message cannot be built
Transports == {"ok", "timeout", "auth_failure", "bad_status", "build_error"}

\* variant of EmailSendAlert that lets a failed authentication escape
EmailSendAlertNarrow(o) ==
  IF o = "ok" THEN "sent"
  ELSE IF o = "auth_failure" THEN "raised" ELSE "failed"

\* EmailNotifier.send_alert: "sent" is return True, "failed" is return False;
\* the handler of line 119 catches every Exception
EmailSendAlert(o) == IF o = "ok" THEN "sent" ELSE "failed"

\* variant of SlackSendAlert that catches only the errors of requests
SlackSendAlertNarrow(o) ==
  IF o = "ok" THEN "sent"
  ELSE IF o \in {"timeout", "bad_status"} THEN "failed" ELSE "raised"

\* SlackNotifier.send_alert: the handlers of lines 333 and 336 catch
\* RequestException and every other Exception
SlackSendAlert(o) == IF o = "ok" THEN "sent" ELSE "failed"

\* ---------------------------------------------------------------- NotificationManager
\* variant of SendEmailAlert that does not look at the notifier
SendEmailAlertUnchecked(ok) == ok

\* send_email_alert: ok is the outcome of the SMTP delivery
SendEmailAlert(ok) == email_notifier /\ ok

\* send_slack_alert: ok is the outcome of the webhook POST
SendSlackAlert(ok) == slack_notifier /\ ok

\* the notifiers whose send_alert is invoked by one dispatch
Configured ==
  (IF email_notifier THEN {"email"} ELSE {}) \cup
  (IF slack_notifier THEN {"slack"} ELSE {})

\* the sinks that received the message, given the outcomes of the transports
Delivered(e, s) ==
  (IF email_notifier /\ e THEN {"email"} ELSE {}) \cup
  (IF slack_notifier /\ s THEN {"slack"} ELSE {})

\* variant of AnySent that requires both sinks
AnySentBoth(e_sent, s_sent) == e_sent /\ s_sent

\* results['any_sent'] of send_all_alerts
AnySent(e_sent, s_sent) == e_sent \/ s_sent

\* an exception of a send_alert leaves send_*_alert and the dispatcher
Raises(oe, os) ==
  \/ email_notifier /\ EmailSendAlert(oe) = "raised"
  \/ slack_notifier /\ SlackSendAlert(os) = "raised"

\* variant of SendAllAlerts that tries the sinks whatever the gate answers
SendAllAlertsUngated(last) ==
  /\ Gate(last)
  /\ \E oe \in Transports, os \in Transports :
       LET e == EmailSendAlert(oe) = "sent"
           s == SlackSendAlert(os) = "sent"
       IN  /\ email_sent' = SendEmailAlert(e)
           /\ slack_sent' = SendSlackAlert(s)
           /\ any_sent' = AnySent(SendEmailAlert(e), SendSlackAlert(s))
           /\ attempted' = Configured
           /\ delivered' = Delivered(e, s)
           /\ raised' = Raises(oe, os)

\* send_all_alerts, entered with last_notification_time = last
SendAllAlerts(last) ==
  /\ Gate(last)
  /\ IF Permit(now, last)
       THEN \E oe \in Transports, os \in Transports :
              LET e == EmailSendAlert(oe) = "sent"
                  s == SlackSendAlert(os) = "sent"
              IN  /\ email_sent' = SendEmailAlert(e)
                  /\ slack_sent' = SendSlackAlert(s)
                  /\ any_sent' = AnySent(SendEmailAlert(e), SendSlackAlert(s))
                  /\ attempted' = Configured
                  /\ delivered' = Delivered(e, s)
                  /\ raised' = Raises(oe, os)
       ELSE /\ email_sent' = FALSE
            /\ slack_sent' = FALSE
            /\ any_sent' = FALSE
            /\ attempted' = {}
            /\ delivered' = {}
            /\ raised' = FALSE

\* ---------------------------------------------------------------- LogMonitorDemo
\* variant of HandleErrorDetected that sends whatever the rate limiter answers
HandleErrorDetectedUngated ==
  /\ ShouldSendNotification
  /\ \E oe \in Transports, os \in Transports :
       LET e == EmailSendAlert(oe) = "sent"
           s == SlackSendAlert(os) = "sent"
       IN  /\ email_sent' = SendEmailAlert(e)
           /\ slack_sent' = SendSlackAlert(s)
           /\ attempted' = Configured
           /\ delivered' = Delivered(e, s)
           /\ raised' = Raises(oe, os)
  /\ UNCHANGED any_sent

\* variant of HandleErrorDetected that gives the permit back when no sink
\* took the message
HandleErrorDetectedRefund ==
  /\ granted' = Permit(now, last_notification_time)
  /\ prevGrant' = IF Permit(now, last_notification_time) THEN now ELSE prevGrant
  /\ UNCHANGED resetAt
  /\ IF Permit(now, last_notification_time)
       THEN \E oe \in Transports, os \in Transports :
              LET e == EmailSendAlert(oe) = "sent"
                  s == SlackSendAlert(os) = "sent"
              IN  /\ email_sent' = SendEmailAlert(e)
                  /\ slack_sent' = SendSlackAlert(s)
                  /\ attempted' = Configured
                  /\ delivered' = Delivered(e, s)
                  /\ raised' = Raises(oe, os)
                  /\ last_notification_time' =
                       IF Delivered(e, s) = {} THEN last_notification_time ELSE now
       ELSE /\ email_sent' = FALSE
            /\ slack_sent' = FALSE
            /\ attempted' = {}
            /\ delivered' = {}
            /\ raised' = FALSE
            /\ UNCHANGED last_notification_time
  /\ UNCHANGED any_sent

\* handle_error_detected, the callback of the monitor
HandleErrorDetected ==
  /\ ShouldSendNotification
  /\ IF Permit(now, last_notification_time)
       THEN \E oe \in Transports, os \in Transports :
              LET e == EmailSendAlert(oe) = "sent"
                  s == SlackSendAlert(os) = "sent"
              IN  /\ email_sent' = SendEmailAlert(e)
                  /\ slack_sent' = SendSlackAlert(s)
                  /\ attempted' = Configured
                  /\ delivered' = Delivered(e, s)
                  /\ raised' = Raises(oe, os)
       ELSE /\ email_sent' = FALSE
            /\ slack_sent' = FALSE
            /\ attempted' = {}
            /\ delivered' = {}
            /\ raised' = FALSE
  /\ UNCHANGED any_sent

\* ---------------------------------------------------------------- clients of the notifier
\* a direct call of NotificationManager.should_send_notification
CallShouldSend ==
  /\ ShouldSendNotification
  /\ op' = "should_send"
  /\ UNCHANGED <<tailVars, sinkVars, confVars, threadVars, auxVars, now>>

\* a detected error is handed to handle_error_detected
CallHandleErrorDetected ==
  /\ HandleErrorDetected
  /\ op' = "handle_error"
  /\ UNCHANGED <<tailVars, confVars, threadVars, auxVars, now>>

CallSendAllAlerts ==
  /\ SendAllAlerts(last_notification_time)
  /\ op' = "send_all"
  /\ UNCHANGED <<tailVars, confVars, threadVars, auxVars, now>>

\* variant of CallReset that leaves last_notification_time alone
CallResetKeep ==
  /\ last_notification_time' = last_notification_time
  /\ prevGrant' = None
  /\ resetAt' = IF prevGrant # None /\ now - prevGrant < min_interval
                THEN now ELSE None
  /\ op' = "reset"
  /\ UNCHANGED <<tailVars, sinkVars, confVars, threadVars, auxVars, now, granted>>

\* RateLimiter.reset
CallReset ==
  /\ last_notification_time' = 0
  /\ prevGrant' = None
  /\ resetAt' = IF prevGrant # None /\ now - prevGrant < min_interval
                THEN now ELSE None
  /\ op' = "reset"
  /\ UNCHANGED <<tailVars, sinkVars, confVars, threadVars, auxVars, now, granted>>

\* test_notifications: reset, then send_all_alerts
CallTestNotifications ==
  /\ SendAllAlerts(0)
  /\ op' = "test_notifications"
  /\ UNCHANGED <<tailVars, confVars, threadVars, auxVars, now>>

\* ---------------------------------------------------------------- concurrent callers of the limiter
\* line 51: current_time = time.time()
ThreadReadClock(t) ==
  /\ tpc[t] = "idle"
  /\ t_current_time' = [t_current_time EXCEPT ![t] = now]
  /\ tpc' = [tpc EXCEPT ![t] = "L52"]
  /\ op' = "t_clock"
  /\ UNCHANGED <<tailVars, sinkVars, gateVars, confVars, auxVars, now,
                 t_time_since_last, t_granted>>

\* line 52: time_since_last = current_time - self.last_notification_time
ThreadReadLast(t) ==
  /\ tpc[t] = "L52"
  /\ t_time_since_last' =
       [t_time_since_last EXCEPT ![t] = t_current_time[t] - last_notification_time]
  /\ tpc' = [tpc EXCEPT ![t] = "L54"]
  /\ op' = "t_last"
  /\ UNCHANGED <<tailVars, sinkVars, gateVars, confVars, auxVars, now,
                 t_current_time, t_granted>>

\* lines 54-60: the comparison, the write and the return
ThreadDecide(t) ==
  /\ tpc[t] = "L54"
  /\ IF t_time_since_last[t] >= min_interval
       THEN /\ last_notification_time' = t_current_time[t]
            /\ t_granted' = [t_granted EXCEPT ![t] = t_current_time[t]]
            /\ op' = "t_granted"
       ELSE /\ op' = "t_denied"
            /\ UNCHANGED <<last_notification_time, t_granted>>
  /\ tpc' = [tpc EXCEPT ![t] = "idle"]
  /\ t_current_time' = [t_current_time EXCEPT ![t] = 0]
  /\ t_time_since_last' = [t_time_since_last EXCEPT ![t] = 0]
  /\ UNCHANGED <<tailVars, sinkVars, confVars, auxVars, now, granted, prevGrant,
                 resetAt>>

ThreadClock == \E t \in Threads : ThreadReadClock(t)
ThreadLast == \E t \in Threads : ThreadReadLast(t)
ThreadGate == \E t \in Threads : ThreadDecide(t)

\* ---------------------------------------------------------------- LogFileHandler
\* on_modified for the monitored file, up to the call of _read_new_content
OnModified ==
  /\ pc = "idle"
  /\ LET cs == GetFileSize
         lp == ResetPosition(cs, last_position)
     IN  /\ current_size' = cs
         /\ last_position' = lp
         /\ pc' = IF cs <= lp THEN "idle" ELSE "read"
  /\ truncated' = "no"
  /\ short_read' = FALSE
  /\ op' = IF GetFileSize < last_position THEN "truncation"
           ELSE IF GetFileSize = last_position THEN "no_growth" ELSE "growth"
  /\ UNCHANGED <<file, exists, nextId, initLen, error_keywords, new_lines,
                 emitted, alerted, reported>>
  /\ UNCHANGED <<sinkVars, gateVars, confVars, threadVars, auxVars, now>>

\* variant of ReadWindow that reads to the end of the file
ReadWindowToEnd == SubSeq(file, last_position + 1, Len(file))

\* file.seek(last_position); file.read(current_size - last_position)
ReadWindow == SubSeq(file, last_position + 1, Min(current_size, Len(file)))

\* variant of ExceptReturn in which the exception leaves on_modified
ExceptReraise == "crashed"

\* "except Exception" of lines 130-131 (and 100-101): the handler prints,
\* _read_new_content and on_modified return, the handler is idle again
ExceptReturn == "idle"

\* variant of NewPosition that counts the bytes the read returned
NewPositionByCount == last_position + Len(ReadWindow)

\* line 119: self.last_position = current_size
NewPosition == current_size

\* _read_new_content up to the loop over the lines
ReadNewContent ==
  /\ pc = "read"
  /\ IF ~exists
       THEN \* open() raises, the handler of line 130 swallows it
            /\ pc' = ExceptReturn
            /\ op' = "read_failed"
            /\ UNCHANGED <<last_position, new_lines, short_read>>
       ELSE /\ last_position' = NewPosition
            /\ short_read' = (Len(ReadWindow) < current_size - last_position)
            /\ IF Strip(ReadWindow) # <<>>
                 THEN /\ new_lines' = Split(Strip(ReadWindow))
                      /\ pc' = "lines"
                 ELSE /\ new_lines' = <<>>
                      /\ pc' = "idle"
            /\ op' = "read"
  /\ UNCHANGED <<file, exists, nextId, initLen, error_keywords, current_size,
                 emitted, alerted, reported, truncated>>
  /\ UNCHANGED <<sinkVars, gateVars, confVars, threadVars, auxVars, now>>

\* the loop "for line in lines" moves to the next line
NextLine ==
  /\ new_lines' = Tail(new_lines)
  /\ pc' = IF Tail(new_lines) = <<>> THEN "idle" ELSE "lines"

\* a blank line of the batch: "if line.strip()" is false
SkipBlankLine ==
  /\ pc = "lines"
  /\ Strip(Head(new_lines)) = <<>>
  /\ reported' = <<>>
  /\ NextLine
  /\ op' = "blank"
  /\ UNCHANGED <<file, exists, nextId, initLen, error_keywords, last_position,
                 current_size, emitted, alerted, truncated, short_read>>
  /\ UNCHANGED <<sinkVars, gateVars, confVars, threadVars, auxVars, now>>

\* _process_log_line when no pattern matches
ProcessNoMatch ==
  /\ pc = "lines"
  /\ Strip(Head(new_lines)) # <<>>
  /\ ProcessLogLine(error_keywords, Head(new_lines), 1) = <<>>
  /\ emitted' = emitted \cup Ids(Head(new_lines))
  /\ reported' = <<>>
  /\ NextLine
  /\ op' = "no_match"
  /\ UNCHANGED <<file, exists, nextId, initLen, error_keywords, last_position,
                 current_size, alerted, truncated, short_read>>
  /\ UNCHANGED <<sinkVars, gateVars, confVars, threadVars, auxVars, now>>

\* _process_log_line when a pattern matches, up to the return of the callback
MatchedLine ==
  /\ pc = "lines"
  /\ Strip(Head(new_lines)) # <<>>
  /\ ProcessLogLine(error_keywords, Head(new_lines), 1) # <<>>
  /\ emitted' = emitted \cup Ids(Head(new_lines))
  /\ alerted' = alerted \cup Ids(Head(new_lines))
  /\ reported' = ProcessLogLine(error_keywords, Head(new_lines), 1)
  /\ NextLine
  /\ op' = "alert"
  /\ UNCHANGED <<file, exists, nextId, initLen, error_keywords, last_position,
                 current_size, truncated, short_read>>
  /\ UNCHANGED <<confVars, threadVars, auxVars, now>>

\* the callback is test_callback: it prints and returns
ProcessMatch ==
  /\ MatchedLine
  /\ UNCHANGED <<sinkVars, gateVars>>

\* the callback is LogMonitorDemo.handle_error_detected
ProcessMatchDispatch ==
  /\ MatchedLine
  /\ HandleErrorDetected

\* _process_log_line when a pattern matches and the callback raises: the
\* exception leaves the loop and is swallowed by the handler of line 130
ProcessMatchRaise ==
  /\ pc = "lines"
  /\ Strip(Head(new_lines)) # <<>>
  /\ ProcessLogLine(error_keywords, Head(new_lines), 1) # <<>>
  /\ emitted' = emitted \cup Ids(Head(new_lines))
  /\ alerted' = alerted \cup Ids(Head(new_lines))
  /\ reported' = <<Head(ProcessLogLine(error_keywords, Head(new_lines), 1))>>
  /\ new_lines' = <<>>
  /\ pc' = ExceptReturn
  /\ op' = "alert_raised"
  /\ UNCHANGED <<file, exists, nextId, initLen, error_keywords, last_position,
                 current_size, truncated, short_read>>
  /\ UNCHANGED <<sinkVars, gateVars, confVars, threadVars, auxVars, now>>

\* open, seek or read raises on a file that is there (no permission, bytes
\* that are not UTF-8): the handler of line 130 swallows it before line 119
ReadRaises ==
  /\ pc = "read"
  /\ exists
  /\ pc' = ExceptReturn
  /\ op' = "read_failed"
  /\ UNCHANGED <<file, exists, nextId, initLen, error_keywords, last_position,
                 current_size, new_lines, emitted, alerted, reported, truncated,
                 short_read>>
  /\ UNCHANGED <<sinkVars, gateVars, confVars, threadVars, auxVars, now>>

\* ---------------------------------------------------------------- the monitor
Next ==
  \/ AppendToLog
  \/ TruncateLog
  \/ DeleteLog
  \/ OnModified
  \/ ReadNewContent
  \/ SkipBlankLine
  \/ ProcessNoMatch
  \/ ProcessMatch
  \/ ProcessMatchRaise

Spec == Init /\ [][Next]_vars

\* the same handler constructed with the one keyword list ["E"]: what it
\* does with offsets and sizes does not depend on the keywords
InitTailer ==
  /\ Init
  /\ error_keywords = <<"E">>

SpecTailer == InitTailer /\ [][Next]_vars

\* ---------------------------------------------------------------- a run without truncation
\* The file only grows, no read fails and the callback returns. Every change
\* is followed by an event that is handled: on_modified runs whenever it would
\* see something new, and an invocation under way runs to its end.
NextGrowing ==
  \/ AppendToLog
  \/ OnModified
  \/ ReadNewContent
  \/ SkipBlankLine
  \/ ProcessNoMatch
  \/ ProcessMatch

SpecGrowing ==
  /\ Init
  /\ [][NextGrowing]_vars
  /\ WF_vars(OnModified)
  /\ WF_vars(ReadNewContent)
  /\ WF_vars(SkipBlankLine \/ ProcessNoMatch \/ ProcessMatch)

\* ---------------------------------------------------------------- change events handled by several threads
\* the lines of a batch that reach _process_log_line
Processed(content) ==
  LET lines == IF Strip(content) = <<>> THEN <<>> ELSE Split(Strip(content))
  IN  {i \in 1..Len(lines) : Strip(lines[i]) # <<>>}

\* ids of the bytes of new_content that are passed to _process_log_line
ProcessedIds(content) ==
  LET lines == IF Strip(content) = <<>> THEN <<>> ELSE Split(Strip(content))
  IN  UNION {Ids(lines[i]) : i \in Processed(content)}

\* ids of the bytes of new_content that are passed to the callback
CallbackIds(content) ==
  LET lines == IF Strip(content) = <<>> THEN <<>> ELSE Split(Strip(content))
  IN  UNION {Ids(lines[i]) :
               i \in {j \in Processed(content) :
                        ProcessLogLine(error_keywords, lines[j], 1) # <<>>}}

\* file.read(n) on a file object at offset pos: a negative n reads to the end
FileRead(pos, n) ==
  IF n < 0 THEN SubSeq(file, pos + 1, Len(file))
  ELSE SubSeq(file, pos + 1, Min(pos + n, Len(file)))

\* lines 86-95: the size check, the truncation reset and the early return
EventSizeCheck(t) ==
  /\ h_pc[t] = "idle"
  /\ LET cs == GetFileSize
         lp == ResetPosition(cs, last_position)
     IN  /\ h_size' = [h_size EXCEPT ![t] = cs]
         /\ last_position' = lp
         /\ h_pc' = [h_pc EXCEPT ![t] = IF cs <= lp THEN "idle" ELSE "L111"]
  /\ op' = "e_size"
  /\ UNCHANGED <<file, exists, nextId, initLen, error_keywords, current_size,
                 pc, new_lines, emitted, alerted, reported, truncated, short_read>>
  /\ UNCHANGED <<h_pos, h_content>>
  /\ UNCHANGED <<sinkVars, gateVars, confVars, threadVars, dispatchVars,
                 stopVars, now>>

\* lines 111-113: open and file.seek(self.last_position)
EventSeek(t) ==
  /\ h_pc[t] = "L111"
  /\ IF exists
       THEN /\ h_pos' = [h_pos EXCEPT ![t] = last_position]
            /\ h_pc' = [h_pc EXCEPT ![t] = "L116"]
       ELSE /\ h_pos' = h_pos
            /\ h_pc' = [h_pc EXCEPT ![t] = "idle"]
  /\ op' = "e_seek"
  /\ UNCHANGED <<tailVars, h_size, h_content>>
  /\ UNCHANGED <<sinkVars, gateVars, confVars, threadVars, dispatchVars,
                 stopVars, now>>

\* line 116: new_content = file.read(current_size - self.last_position)
EventRead(t) ==
  /\ h_pc[t] = "L116"
  /\ h_content' =
       [h_content EXCEPT ![t] = FileRead(h_pos[t], h_size[t] - last_position)]
  /\ h_pc' = [h_pc EXCEPT ![t] = "L119"]
  /\ op' = "e_read"
  /\ UNCHANGED <<tailVars, h_size, h_pos>>
  /\ UNCHANGED <<sinkVars, gateVars, confVars, threadVars, dispatchVars,
                 stopVars, now>>

\* lines 119-128: the offset update and the loop over the lines of the batch
EventProcess(t) ==
  /\ h_pc[t] = "L119"
  /\ last_position' = h_size[t]
  /\ emitted' = emitted \cup ProcessedIds(h_content[t])
  /\ alerted' = alerted \cup CallbackIds(h_content[t])
  /\ h_pc' = [h_pc EXCEPT ![t] = "idle"]
  /\ h_content' = [h_content EXCEPT ![t] = <<>>]
  /\ h_size' = [h_size EXCEPT ![t] = 0]
  /\ h_pos' = [h_pos EXCEPT ![t] = 0]
  /\ op' = "e_batch"
  /\ UNCHANGED <<file, exists, nextId, initLen, error_keywords, current_size,
                 pc, new_lines, reported, truncated, short_read>>
  /\ UNCHANGED <<sinkVars, gateVars, confVars, threadVars, dispatchVars,
                 stopVars, now>>

OnModifiedEnter == \E t \in Threads : EventSizeCheck(t)
OnModifiedSeek == \E t \in Threads : EventSeek(t)
OnModifiedRead == \E t \in Threads : EventRead(t)
OnModifiedProcess == \E t \in Threads : EventProcess(t)

\* a log that starts empty and only grows, one keyword
InitConcurrentEvents ==
  /\ InitHandler
  /\ file = <<>>
  /\ error_keywords = <<"E">>
  /\ InitNotifier
  /\ min_interval = 0
  /\ email_notifier = FALSE
  /\ slack_notifier = FALSE
  /\ InitThreads
  /\ InitConfig
  /\ InitEvents
  /\ InitDispatch
  /\ InitStarted
  /\ op = "init"

NextEvents ==
  \/ WriteLogLine
  \/ OnModifiedEnter
  \/ OnModifiedSeek
  \/ OnModifiedRead
  \/ OnModifiedProcess

SpecEvents == InitConcurrentEvents /\ [][NextEvents]_vars

\* ---------------------------------------------------------------- the whole pipeline
\* LogMonitorDemo: the handler on a log that starts empty, with
\* handle_error_detected as its callback, any interval, any sinks. The log
\* is written in whole non-blank lines, so no batch holds a blank line and
\* the step SkipBlankLine has no occasion.
InitMonitor ==
  /\ InitHandler
  /\ file = <<>>
  /\ error_keywords \in KeywordLists \ {<<>>}
  /\ InitNotifier
  /\ min_interval \in Intervals
  /\ email_notifier \in BOOLEAN
  /\ slack_notifier \in BOOLEAN
  /\ InitThreads
  /\ InitConfig
  /\ InitEvents
  /\ InitDispatch
  /\ InitStarted
  /\ op = "init"

NextMonitor ==
  \/ Tick
  \/ WriteLogLine
  \/ TruncateLog
  \/ DeleteLog
  \/ OnModified
  \/ ReadNewContent
  \/ ProcessNoMatch
  \/ ProcessMatchDispatch

SpecMonitor == InitMonitor /\ [][NextMonitor]_vars

\* ---------------------------------------------------------------- start and stop of the monitor
\* the process has not constructed its LogMonitorDemo yet: the log file may
\* be absent, unreadable, or impossible to create. The log is written in
\* whole non-blank lines, as in SpecMonitor.
InitBeforeStart ==
  /\ file = <<>>
  /\ nextId = 1
  /\ initLen = 0
  /\ exists \in BOOLEAN
  /\ readable \in BOOLEAN
  /\ creatable \in BOOLEAN
  /\ last_position = 0
  /\ current_size = 0
  /\ pc = "idle"
  /\ new_lines = <<>>
  /\ emitted = {}
  /\ alerted = {}
  /\ reported = <<>>
  /\ truncated = "no"
  /\ short_read = FALSE
  /\ phase = "new"
  /\ observer = "unstarted"
  /\ running = FALSE
  /\ exit_code = None
  /\ error_keywords = <<"E">>
  /\ InitNotifier
  /\ min_interval = 0
  /\ email_notifier = FALSE
  /\ slack_notifier = FALSE
  /\ InitThreads
  /\ InitConfig
  /\ InitEvents
  /\ InitDispatch
  /\ op = "init"

\* variant of ValidateLogFile without the os.access test
ValidateLogFileUnchecked == exists \/ creatable

\* _validate_log_file returns: the file exists or mkdir and touch succeed,
\* and os.access(R_OK) is true
ValidateLogFile == (exists \/ creatable) /\ readable

\* main: LogMonitorDemo() and monitor.start() up to the main loop; a failure
\* of the construction reaches the handlers of main, which call sys.exit(1)
StartMonitor ==
  /\ phase = "new"
  /\ IF ValidateLogFile
       THEN /\ exists' = TRUE
            /\ last_position' = Len(file)
            /\ current_size' = Len(file)
            /\ initLen' = Len(file)
            /\ observer' = "alive"
            /\ running' = TRUE
            /\ phase' = "running"
            /\ exit_code' = exit_code
            /\ op' = "started"
       ELSE /\ exists' = (exists \/ creatable)
            /\ observer' = observer
            /\ running' = running
            /\ phase' = "exited"
            /\ exit_code' = 1
            /\ op' = "start_failed"
            /\ UNCHANGED <<last_position, current_size, initLen>>
  /\ UNCHANGED <<file, nextId, error_keywords, pc, new_lines, emitted, alerted,
                 reported, truncated, short_read, readable, creatable>>
  /\ UNCHANGED <<sinkVars, gateVars, confVars, threadVars, eventVars,
                 dispatchVars, now>>

\* the events of the watched directory: Path(log_file_path).resolve() is the
\* monitored file, the other path any other entry of its directory
log_file_path == "app.log"
Paths == {log_file_path, "other.log"}
Events == [is_directory : BOOLEAN, src_path : Paths]

\* variant of Accepts that lets every file of the directory through
AcceptsAnyFile(event) == ~event.is_directory

\* the test of line 79 does not return
Accepts(event) == ~(event.is_directory \/ event.src_path # log_file_path)

\* on_modified returns at line 80
IgnoreEvent ==
  /\ op' = "filtered"
  /\ UNCHANGED <<tailVars, sinkVars, gateVars, confVars, threadVars, auxVars,
                 now>>

\* the observer thread delivers a change event to on_modified
DeliverEvent ==
  /\ observer = "alive"
  /\ pc = "idle"
  /\ \E event \in Events : IF Accepts(event) THEN OnModified ELSE IgnoreEvent

\* LogWatcher.stop, lines 316-318: observer.stop() when it is alive
ObserverStop == IF observer = "alive" THEN "stopping" ELSE observer

\* a signal arrives in the main loop: signal_handler calls
\* LogMonitorDemo.stop, which calls LogWatcher.stop up to observer.join
RequestStop ==
  /\ phase = "running"
  /\ running' = FALSE
  /\ observer' = ObserverStop
  /\ phase' = "join"
  /\ op' = "stop_requested"
  /\ UNCHANGED <<tailVars, exit_code, readable, creatable>>
  /\ UNCHANGED <<sinkVars, gateVars, confVars, threadVars, eventVars,
                 dispatchVars, now>>

\* the observer thread sees the stop request once the event in hand is done
ObserverExit ==
  /\ observer = "stopping"
  /\ pc = "idle"
  /\ observer' = "stopped"
  /\ op' = "observer_exit"
  /\ UNCHANGED <<tailVars, phase, running, exit_code, readable, creatable>>
  /\ UNCHANGED <<sinkVars, gateVars, confVars, threadVars, eventVars,
                 dispatchVars, now>>

\* observer.join(timeout=5) returns, the thread having ended or the five
\* seconds having passed; LogWatcher.stop and LogMonitorDemo.stop return
JoinReturn ==
  /\ phase = "join"
  /\ phase' = "stopped"
  /\ op' = IF observer = "stopped" THEN "joined" ELSE "join_timeout"
  /\ UNCHANGED <<tailVars, observer, running, exit_code, readable, creatable>>
  /\ UNCHANGED <<sinkVars, gateVars, confVars, threadVars, eventVars,
                 dispatchVars, now>>

NextLifecycle ==
  \/ StartMonitor
  \/ WriteLogLine
  \/ TruncateLog
  \/ DeleteLog
  \/ DeliverEvent
  \/ ReadNewContent
  \/ ReadRaises
  \/ ProcessNoMatch
  \/ ProcessMatchDispatch
  \/ ProcessMatchRaise
  \/ RequestStop
  \/ ObserverExit
  \/ JoinReturn

SpecLifecycle == InitBeforeStart /\ [][NextLifecycle]_vars

\* ---------------------------------------------------------------- the notifier alone
\* no file activity: the handler stays idle on an empty file
InitQuietHandler ==
  /\ InitHandler
  /\ file = <<>>
  /\ error_keywords = <<>>

InitSinks ==
  /\ InitQuietHandler
  /\ InitNotifier
  /\ min_interval \in Intervals
  /\ email_notifier \in BOOLEAN
  /\ slack_notifier \in BOOLEAN
  /\ InitThreads
  /\ InitConfig
  /\ InitEvents
  /\ InitDispatch
  /\ InitStarted
  /\ op = "init"

NextNotifier ==
  \/ Tick
  \/ CallShouldSend
  \/ CallHandleErrorDetected
  \/ CallSendAllAlerts
  \/ CallReset
  \/ CallTestNotifications

SpecNotifier == InitSinks /\ [][NextNotifier]_vars

\* ---------------------------------------------------------------- send_all_alerts, statement by statement
\* lines 515-524: the results start all False; the gate check
DispatchEnter ==
  /\ d_pc = "idle"
  /\ ShouldSendNotification
  /\ d_pc' = IF Permit(now, last_notification_time) THEN "L529" ELSE "idle"
  /\ email_sent' = FALSE
  /\ slack_sent' = FALSE
  /\ any_sent' = FALSE
  /\ attempted' = {}
  /\ delivered' = {}
  /\ raised' = FALSE
  /\ op' = "d_enter"
  /\ UNCHANGED <<tailVars, confVars, threadVars, eventVars, stopVars, sending,
                 now>>

\* line 529: send_email_alert is called; without a notifier it returns False
\* at once
EmailStart ==
  /\ d_pc = "L529"
  /\ IF email_notifier
       THEN /\ sending' = sending \cup {"email"}
            /\ attempted' = attempted \cup {"email"}
            /\ d_pc' = "email"
       ELSE /\ d_pc' = "L532"
            /\ UNCHANGED <<sending, attempted>>
  /\ op' = "d_email_start"
  /\ UNCHANGED <<email_sent, slack_sent, any_sent, delivered, raised>>
  /\ UNCHANGED <<tailVars, gateVars, confVars, threadVars, eventVars,
                 stopVars, now>>

\* line 529: EmailNotifier.send_alert returns and its result is stored
EmailReturn ==
  /\ "email" \in sending
  /\ \E o \in Transports :
       /\ email_sent' = SendEmailAlert(EmailSendAlert(o) = "sent")
       /\ delivered' = delivered \cup Delivered(EmailSendAlert(o) = "sent", FALSE)
       /\ raised' = (EmailSendAlert(o) = "raised")
  /\ sending' = sending \ {"email"}
  /\ d_pc' = "L532"
  /\ op' = "d_email_return"
  /\ UNCHANGED <<slack_sent, any_sent, attempted>>
  /\ UNCHANGED <<tailVars, gateVars, confVars, threadVars, eventVars,
                 stopVars, now>>

\* line 532 is reached when line 529 has completed
SlackMayStart == d_pc = "L532"

\* line 532: send_slack_alert is called
SlackStart ==
  /\ SlackMayStart
  /\ IF slack_notifier
       THEN /\ sending' = sending \cup {"slack"}
            /\ attempted' = attempted \cup {"slack"}
            /\ d_pc' = "slack"
       ELSE /\ d_pc' = "L535"
            /\ UNCHANGED <<sending, attempted>>
  /\ op' = "d_slack_start"
  /\ UNCHANGED <<email_sent, slack_sent, any_sent, delivered, raised>>
  /\ UNCHANGED <<tailVars, gateVars, confVars, threadVars, eventVars,
                 stopVars, now>>

\* line 532: SlackNotifier.send_alert returns and its result is stored
SlackReturn ==
  /\ "slack" \in sending
  /\ \E o \in Transports :
       /\ slack_sent' = SendSlackAlert(SlackSendAlert(o) = "sent")
       /\ delivered' = delivered \cup Delivered(FALSE, SlackSendAlert(o) = "sent")
       /\ raised' = (SlackSendAlert(o) = "raised")
  /\ sending' = sending \ {"slack"}
  /\ d_pc' = "L535"
  /\ op' = "d_slack_return"
  /\ UNCHANGED <<email_sent, any_sent, attempted>>
  /\ UNCHANGED <<tailVars, gateVars, confVars, threadVars, eventVars,
                 stopVars, now>>

\* lines 535-542: any_sent is computed and the results are returned
DispatchReturn ==
  /\ d_pc = "L535"
  /\ any_sent' = AnySent(email_sent, slack_sent)
  /\ d_pc' = "idle"
  /\ op' = "d_return"
  /\ UNCHANGED <<email_sent, slack_sent, attempted, delivered, raised, sending>>
  /\ UNCHANGED <<tailVars, gateVars, confVars, threadVars, eventVars,
                 stopVars, now>>

NextDispatch ==
  \/ Tick
  \/ DispatchEnter
  \/ EmailStart
  \/ EmailReturn
  \/ SlackStart
  \/ SlackReturn
  \/ DispatchReturn

SpecDispatch == InitSinks /\ [][NextDispatch]_vars

\* ---------------------------------------------------------------- construction of the manager
\* EmailNotifier.__init__ returns: only recipient_emails is dereferenced
\* (None.split raises AttributeError); a password that is None is stored
EmailNotifierInit(c) == c.recipient_emails # "absent"

\* SlackNotifier.__init__ returns: every option is read with config.get
SlackNotifierInit(c) == TRUE

\* line 444 and the try of lines 445-449
EmailEnabled(c) ==
  c.email_section /\ c.sender_email = "set" /\ EmailNotifierInit(c)

\* line 452 and the try of lines 453-457
SlackEnabled(c) ==
  c.slack_section /\ c.webhook_url = "set" /\ SlackNotifierInit(c)

\* a configuration file and no manager yet
InitUnconfigured ==
  /\ InitQuietHandler
  /\ InitNotifier
  /\ min_interval = 0
  /\ config \in Configs
  /\ manager = "new"
  /\ email_notifier = FALSE
  /\ slack_notifier = FALSE
  /\ InitThreads
  /\ InitEvents
  /\ InitDispatch
  /\ InitStarted
  /\ op = "init"

\* NotificationManager.__init__
ConstructManager ==
  /\ manager = "new"
  /\ manager' = "constructed"
  /\ email_notifier' = EmailEnabled(config)
  /\ slack_notifier' = SlackEnabled(config)
  /\ op' = "constructed"
  /\ UNCHANGED <<min_interval, config>>
  /\ UNCHANGED <<tailVars, sinkVars, gateVars, threadVars, auxVars, now>>

\* a detected error is dispatched by the constructed manager
DispatchConfigured ==
  /\ manager = "constructed"
  /\ CallSendAllAlerts

NextConfig ==
  \/ ConstructManager
  \/ DispatchConfigured

SpecConfig == InitUnconfigured /\ [][NextConfig]_vars

\* ---------------------------------------------------------------- extraction
\* "<timestamp> <LEVEL>: <text>" with an upper-case level and a text that
\* neither starts nor ends with white space
WellFormed(t) ==
  /\ Len(t) > 5
  /\ SubSeq(t, 1, 2) = <<"T", SP>>
  /\ t[3] \in {"E", "W"}
  /\ SubSeq(t, 4, 5) = <<":", SP>>
  /\ t[6] \notin Whitespace
  /\ t[Len(t)] \notin Whitespace

\* the lines the extraction is applied to: every short text and every
\* well-formed line with a short text
ExtractLines ==
  UNION {[1..n -> LineChars] : n \in 1..MaxLine}
    \cup {l \in {<<"T", SP, v, ":", SP>> \o x :
                    v \in {"E", "W"},
                    x \in UNION {[1..n -> LineChars] : n \in 1..MaxText}} :
           WellFormed(l)}

\* the loop of _read_new_content holds one line; the callback is test_callback
InitExtract ==
  /\ \E l \in ExtractLines :
       /\ file = MkFile(l \o <<NL>>)
       /\ new_lines = <<MkFile(l)>>
       /\ nextId = Len(l) + 2
       /\ last_position = Len(l) + 1
       /\ current_size = Len(l) + 1
  /\ initLen = 0
  /\ exists = TRUE
  /\ pc = "lines"
  /\ emitted = {}
  /\ alerted = {}
  /\ reported = <<>>
  /\ truncated = "no"
  /\ short_read = FALSE
  /\ error_keywords \in {<<"E">>, <<"W">>}
  /\ InitNotifier
  /\ min_interval = 0
  /\ email_notifier = FALSE
  /\ slack_notifier = FALSE
  /\ InitThreads
  /\ InitConfig
  /\ InitEvents
  /\ InitDispatch
  /\ InitStarted
  /\ op = "init"

\* _extract_error_info called on the line with a keyword
CallExtractErrorInfo ==
  /\ pc = "lines"
  /\ \E k \in {"E", "W"} : reported' = <<ErrorInfo(Head(new_lines), k)>>
  /\ op' = "extract"
  /\ UNCHANGED <<file, exists, nextId, initLen, error_keywords, last_position,
                 current_size, pc, new_lines, emitted, alerted, truncated,
                 short_read>>
  /\ UNCHANGED <<sinkVars, gateVars, confVars, threadVars, auxVars, now>>

NextExtract ==
  \/ CallExtractErrorInfo
  \/ SkipBlankLine
  \/ ProcessNoMatch
  \/ ProcessMatch

SpecExtract == InitExtract /\ [][NextExtract]_vars

\* ---------------------------------------------------------------- the limiter under concurrent callers
NextThreads ==
  \/ Tick
  \/ ThreadClock
  \/ ThreadLast
  \/ ThreadGate

\* the limiter of a manager without sinks, any interval
InitLimiter ==
  /\ InitQuietHandler
  /\ InitNotifier
  /\ min_interval \in Intervals
  /\ email_notifier = FALSE
  /\ slack_notifier = FALSE
  /\ InitThreads
  /\ InitConfig
  /\ InitEvents
  /\ InitDispatch
  /\ InitStarted
  /\ op = "init"

SpecThreads == InitLimiter /\ [][NextThreads]_vars

\* ---------------------------------------------------------------- steps named by the properties
OnModifiedOps == {"truncation", "no_growth", "growth"}
CallbackOps == {"alert", "alert_raised"}
GateOps == {"should_send", "handle_error", "send_all"}
DispatchOps == {"handle_error", "send_all", "test_notifications"}

\* a step of on_modified (the size check)
IsOnModified == pc = "idle" /\ op' \in OnModifiedOps

\* a step of the loop over the lines of a batch
IsLineStep == pc = "lines" /\ new_lines' # new_lines

\* the bytes that were in the file when the handler was constructed
PreExisting == 1..initLen

\* index of the earliest configured keyword found in the line, 0 if none
FirstMatching(line) ==
  LET hits == {i \in 1..Len(error_keywords) : Search(error_keywords[i], line)}
  IN  IF hits = {} THEN 0 ELSE CHOOSE i \in hits : \A j \in hits : i <= j

\* ---------------------------------------------------------------- properties
\* C1 (no replay): no byte that was in the file when the handler was
\* constructed is ever part of a line passed to the callback.
C1_NoReplay == alerted \cap PreExisting = {}

\* C2 (truncation invariant): at the first size check after the file was
\* emptied (and possibly written again), the read starts at offset 0, covers
\* the whole file as it is now, and none of the bytes it covers has been
\* emitted before.
C2_TruncationInvariant ==
  [][(truncated = "emptied" /\ IsOnModified) =>
       /\ last_position' = 0
       /\ current_size' = GetFileSize
       /\ (GetFileSize > 0 => pc' = "read")
       /\ Ids(file) \cap emitted = {}]_vars

\* C3 (rate-limit correctness): with a positive interval, a gate check made
\* less than min_interval after the previous grant is denied, and one made
\* at least min_interval after it is granted; so two grants without a reset
\* between them are at least min_interval apart.
C3_RateLimit ==
  [][(min_interval > 0 /\ op' \in GateOps /\ prevGrant # None) =>
       (granted' <=> now - prevGrant >= min_interval)]_vars

\* C3 witness: a gate check inside the window of an earlier grant was denied
C3_Witness ==
  /\ op = "should_send"
  /\ min_interval > 0
  /\ prevGrant # None
  /\ now > prevGrant
  /\ now - prevGrant < min_interval
  /\ ~granted

\* C4 (atomic permit): with a positive interval, the grants observed by two
\* different concurrent callers are at least min_interval apart.
C4_AtomicPermit ==
  \A t1 \in Threads, t2 \in Threads :
    (min_interval > 0 /\ t1 # t2 /\ t_granted[t1] # None /\ t_granted[t2] # None) =>
      \/ t_granted[t1] - t_granted[t2] >= min_interval
      \/ t_granted[t2] - t_granted[t1] >= min_interval

\* C5 (partial sink failure isolation): after a granted dispatch with both
\* sinks configured, both sinks were attempted, each reported result is the
\* outcome of its own delivery, and any_sent of send_all_alerts is true
\* exactly when one of the deliveries succeeded.
C5_SinkIsolation ==
  (op \in DispatchOps /\ granted /\ email_notifier /\ slack_notifier) =>
    /\ attempted = {"email", "slack"}
    /\ email_sent = ("email" \in delivered)
    /\ slack_sent = ("slack" \in delivered)
    /\ (op # "handle_error" => any_sent = (delivered # {}))

\* C5 witness: send_all_alerts with a failing email sink and a working Slack sink
C5_Witness ==
  /\ op = "send_all"
  /\ granted
  /\ email_notifier
  /\ slack_notifier
  /\ attempted = {"email", "slack"}
  /\ delivered = {"slack"}
  /\ ~email_sent
  /\ slack_sent
  /\ any_sent

\* C6 (first-match precedence): for each line of a batch the callback is
\* invoked at most once; it is invoked when some configured keyword occurs in
\* a non-blank line, and then with the earliest such keyword in configured order.
C6_FirstMatch ==
  [][IsLineStep =>
       LET line == Head(new_lines)
           first == FirstMatching(line)
       IN  /\ Len(reported') <= 1
           /\ (Strip(line) # <<>> /\ first # 0) =>
                /\ Len(reported') = 1
                /\ reported'[1].matched_keyword = error_keywords[first]
           /\ (Strip(line) = <<>> \/ first = 0) => reported' = <<>>]_vars

\* C6 witness: a line with both keywords was reported under the first configured one
C6_Witness ==
  /\ op = "alert"
  /\ error_keywords = <<"F", "E">>
  /\ Len(reported) = 1
  /\ reported[1].line = <<"E", "F">>
  /\ reported[1].matched_keyword = "F"

\* C7 (idempotence of no-op cycles): a change event handled while the file
\* size equals last_position leaves last_position unchanged, starts no read
\* and emits nothing.
C7_NoOpCycle ==
  [][(IsOnModified /\ GetFileSize = last_position) =>
       /\ last_position' = last_position
       /\ pc' = "idle"
       /\ new_lines' = new_lines
       /\ emitted' = emitted
       /\ alerted' = alerted]_vars

\* C7 witness: a no-op cycle was handled after content had been consumed
C7_Witness ==
  /\ op = "no_growth"
  /\ pc = "idle"
  /\ last_position > 0
  /\ last_position = GetFileSize
  /\ emitted # {}

\* C8 (tailer state invariant): last_position never exceeds the file size
\* observed by the most recent size check.
C8_PositionBound == last_position <= current_size

\* C8 witness: the file was truncated between the size check and the read,
\* the read was short and last_position is beyond the end of the file
C8_Witness ==
  /\ op = "read"
  /\ exists
  /\ last_position = current_size
  /\ Len(file) < last_position

\* C9 (line-level failure isolation): when the callback raises on a line,
\* the later lines of the same batch are still to be processed.
C9_LineIsolation ==
  [][(pc = "lines" /\ op' = "alert_raised") => new_lines' = Tail(new_lines)]_vars

\* C10 (at-most-once emission): no byte of a line passed to the callback was
\* part of a line passed to the callback before.
C10_AtMostOnce ==
  [][(pc = "lines" /\ op' \in CallbackOps) =>
       Ids(Head(new_lines)) \cap alerted = {}]_vars

\* C11: in the pipeline the rate limit is global. A detected line handled
\* less than min_interval after the last burst is suppressed whatever its
\* keyword: no sink is attempted, nothing is delivered and the limiter is left
\* alone. A burst happens only min_interval or more after the previous one,
\* attempts every configured sink once, and only for the line being handled:
\* no other step sends, so a suppressed line is never sent later.
C11_GlobalRateLimit ==
  [][/\ (pc = "lines" /\ op' = "alert" /\ min_interval > 0 /\ prevGrant # None) =>
          /\ (now - prevGrant < min_interval =>
                 /\ ~granted'
                 /\ attempted' = {}
                 /\ delivered' = {}
                 /\ last_notification_time' = last_notification_time)
          /\ (attempted' # {} =>
                 /\ now - prevGrant >= min_interval
                 /\ attempted' = Configured)
     /\ (attempted' # attempted \/ delivered' # delivered) => op' = "alert"]_vars

\* a line matching E is suppressed inside the window of an earlier burst
C11_Witness ==
  /\ op = "alert"
  /\ min_interval > 0
  /\ prevGrant # None
  /\ now > prevGrant
  /\ now - prevGrant < min_interval
  /\ ~granted
  /\ attempted = {}
  /\ Configured # {}
  /\ Len(reported) = 1
  /\ reported[1].matched_keyword = "E"

\* C12: change events delivered to several threads are handled one after the
\* other, so on a log that only grows no invocation of on_modified passes to
\* _process_log_line a byte that an earlier invocation already passed.
C12_SerializedCallback ==
  [][\A t \in Threads :
       (h_pc[t] = "L119" /\ h_pc'[t] = "idle") =>
         ProcessedIds(h_content[t]) \cap emitted = {}]_vars

\* C13: last_position is advanced to the observed size only when the read
\* returned the whole delta (current_size - last_position bytes); when the
\* read returns fewer bytes or the file cannot be opened, the offset is left
\* alone and no line of the cycle is processed.
C13_OffsetAfterFullRead ==
  [][(pc = "read" /\ op' \in {"read", "read_failed"}) =>
       IF exists /\ Len(ReadWindow) = current_size - last_position
         THEN last_position' = current_size
         ELSE /\ last_position' = last_position
              /\ new_lines' = <<>>
              /\ pc' = "idle"]_vars

\* C14: with neither notifier configured a dispatch attempts no send, raises
\* nothing and reports email_sent, slack_sent and any_sent all false.
C14_ZeroSinks ==
  (~email_notifier /\ ~slack_notifier) =>
    /\ attempted = {}
    /\ delivered = {}
    /\ ~email_sent
    /\ ~slack_sent
    /\ ~any_sent
    /\ ~raised

\* send_all_alerts passed the gate on a manager without sinks
C14_Witness ==
  /\ op = "send_all"
  /\ granted
  /\ ~email_notifier
  /\ ~slack_notifier
  /\ attempted = {}
  /\ ~any_sent

\* C15: for every failing outcome of its transport the send_alert of either
\* sink returns False instead of raising, and no dispatch (send_all_alerts,
\* handle_error_detected, test_notifications) is left by an exception.
C15_NeverRaises ==
  /\ \A o \in Transports \ {"ok"} :
       EmailSendAlert(o) = "failed" /\ SlackSendAlert(o) = "failed"
  /\ ~raised

\* handle_error_detected tried both sinks, both failed, and it returned
C15_Witness ==
  /\ op = "handle_error"
  /\ granted
  /\ attempted = {"email", "slack"}
  /\ delivered = {}
  /\ ~email_sent
  /\ ~slack_sent
  /\ ~raised

\* C16: the sends of one dispatch run concurrently: while the email send is
\* executing, the Slack send of a manager with both sinks is executing too
\* or can start, without waiting for the email send to return.
C16_ConcurrentFanOut ==
  ("email" \in sending /\ slack_notifier) =>
    ("slack" \in sending \/ ENABLED SlackStart)

\* C17: a granted gate check sets last_notification_time to the time of the
\* call, a denied one leaves it as it was (as reset by test_notifications: 0),
\* and only a gate check or a reset changes last_notification_time, whatever
\* the sinks did with the message.
C17_GateEffects ==
  [][/\ (op' \in GateOps =>
          IF granted' THEN last_notification_time' = now
          ELSE last_notification_time' = last_notification_time)
     /\ (op' = "test_notifications" =>
          IF granted' THEN last_notification_time' = now
          ELSE last_notification_time' = 0)
     /\ (last_notification_time' # last_notification_time =>
          op' \in GateOps \cup {"reset", "test_notifications"})]_vars

\* a later grant whose sends both failed still recorded its time
C17_Witness ==
  /\ op = "handle_error"
  /\ granted
  /\ now > ClockStart
  /\ last_notification_time = now
  /\ attempted = {"email", "slack"}
  /\ delivered = {}

\* C18: a gate check made when no grant has happened since the construction
\* or since the last reset is granted, provided min_interval is not larger
\* than the clock value; so is the check of test_notifications, which resets
\* first.
C18_FirstAndReset ==
  [][/\ (op' \in GateOps /\ prevGrant = None /\ min_interval <= now) => granted'
     /\ (op' = "test_notifications" /\ min_interval <= now) => granted']_vars

\* a reset cut a suppression window short and the next check was granted
C18_Witness ==
  /\ op = "should_send"
  /\ granted
  /\ min_interval > 0
  /\ resetAt = now
  /\ prevGrant = now

\* C19: after a stop request the observer is told to stop and the running
\* flag is cleared; once stop has returned no further line reaches
\* _process_log_line or the callback and last_position is not modified, even
\* if an event was being handled when stop was requested.
C19_Cancellation ==
  [][phase = "stopped" =>
       /\ ~running
       /\ observer # "alive"
       /\ emitted' = emitted
       /\ alerted' = alerted
       /\ last_position' = last_position]_vars

\* C20: the construction creates the log file when it is absent; when the file
\* cannot be created or cannot be read the construction fails, the process
\* exits with status 1, the observer is never started and no line is ever
\* processed; otherwise the observer is started on the existing file.
C20_StartupFailureFatal ==
  [][/\ (phase = "new" /\ phase' # "new") =>
          IF (~exists /\ ~creatable) \/ ~readable
            THEN /\ exit_code' = 1
                 /\ phase' = "exited"
                 /\ observer' = "unstarted"
            ELSE /\ exists'
                 /\ file' = file
                 /\ last_position' = Len(file)
                 /\ observer' = "alive"
                 /\ exit_code' = None
     /\ exit_code' = 1 =>
          /\ observer' = "unstarted"
          /\ pc' = "idle"
          /\ emitted' = {}
          /\ alerted' = {}]_vars

\* the start failed on an unreadable file, and lines written to the log
\* afterwards were not processed
C20_Witness ==
  /\ exit_code = 1
  /\ phase = "exited"
  /\ exists
  /\ ~readable
  /\ nextId > initLen + 1
  /\ emitted = {}

\* the required options of the email sink are all set
EmailComplete(c) ==
  /\ c.email_section
  /\ c.sender_email = "set"
  /\ c.sender_password = "set"
  /\ c.recipient_emails = "set"

\* the required option of the Slack sink is set
SlackComplete(c) == c.slack_section /\ c.webhook_url = "set"

\* C21: whatever required sink options are set or missing, the construction
\* of the manager does not fail, a sink is enabled exactly when its required
\* options are all set, and a sink with a missing option is never attempted.
C21_ConfigDefect ==
  /\ manager # "failed"
  /\ manager = "constructed" =>
       /\ email_notifier <=> EmailComplete(config)
       /\ slack_notifier <=> SlackComplete(config)
       /\ ("email" \in attempted => EmailComplete(config))
       /\ ("slack" \in attempted => SlackComplete(config))

\* position in the file of the byte with the given id
Pos(id) == CHOOSE i \in 1..Len(file) : file[i].id = id

\* C22: a dispatch in which sinks fail is, for the tailer, like any other:
\* the callback returns, last_position and the observed size stay as they
\* were, the loop moves on to the next line of the batch, and the limiter
\* records the grant whatever the sinks answered.
C22_SinkFailureIsolated ==
  [][(pc = "lines" /\ op' = "alert") =>
       /\ ~raised'
       /\ last_position' = last_position
       /\ current_size' = current_size
       /\ new_lines' = Tail(new_lines)
       /\ pc' = (IF Tail(new_lines) = <<>> THEN "idle" ELSE "lines")
       /\ granted' = Permit(now, last_notification_time)
       /\ last_notification_time' =
            (IF granted' THEN now ELSE last_notification_time)]_vars

\* both sinks failed for a line and another line of the batch is waiting
C22_Witness ==
  /\ op = "alert"
  /\ granted
  /\ attempted = {"email", "slack"}
  /\ delivered = {}
  /\ pc = "lines"
  /\ new_lines # <<>>

C24_ShortReadResume ==
  [][/\ (pc = "read" /\ pc' # "read" /\ exists /\ Len(file) < current_size) =>
          op' = "read" /\ short_read'
     /\ (pc = "idle" /\ short_read /\ IsOnModified) =>
          /\ op' = "truncation"
          /\ last_position' = 0
          /\ (GetFileSize > 0 => pc' = "read")]_vars

\* C25: for a line "<timestamp> <LEVEL>: <text>" with an upper-case level,
\* _extract_error_info returns the timestamp of the line, the level token,
\* the text after the level without the leading colon and white space, and
\* the keyword it was given.
C25_WellFormedExtraction ==
  [][(op' = "extract" /\ WellFormed(Text(Head(new_lines)))) =>
       LET t == Text(Head(new_lines)) IN
         /\ reported'[1].timestamp = "T"
         /\ reported'[1].level = t[3]
         /\ reported'[1].message = SubSeq(t, 6, Len(t))
         /\ reported'[1].matched_keyword \in {"E", "W"}
         /\ reported'[1].line = t]_vars

\* a keyword occurs in the text only inside a longer word, and the text has
\* no timestamp and no level word standing alone
KeywordInsideWord(t, keyword) ==
  /\ \E i \in 1..Len(t) : Upper(t[i]) = keyword
  /\ \A i \in 1..Len(t) :
       /\ t[i] # "T"
       /\ Upper(t[i]) \in {"E", "F", "W"} =>
            \/ (i > 1 /\ t[i - 1] \in WordChars)
            \/ (i < Len(t) /\ t[i + 1] \in WordChars)

\* C26: a line without timestamp and without a level word of its own, in
\* which the keyword occurs inside a longer word, still matches; its record
\* has level UNKNOWN, the whole trimmed line as message and the time of
\* detection as timestamp. The line field of a record is never empty.
C26_ExtractionFallback ==
  [][(pc = "lines" /\ new_lines' # new_lines) =>
       /\ (op' = "alert" => reported'[1].line # <<>>)
       /\ KeywordInsideWord(Text(Head(new_lines)), error_keywords[1]) =>
            /\ op' = "alert"
            /\ reported'[1].level = "U"
            /\ reported'[1].timestamp = "NOW"
            /\ reported'[1].message
                 = StripOf(Text(Head(new_lines)), Whitespace)]_vars

\* C27: with an empty keyword list no line is handed to the callback,
\* whatever is appended, while every read still moves last_position to the
\* size it was called with.
C27_EmptyKeywordList ==
  error_keywords = <<>> =>
    /\ alerted = {}
    /\ reported = <<>>
    /\ op \notin CallbackOps
    /\ (op = "read" => last_position = current_size)
    /\ (pc = "idle" /\ op = "no_match" => last_position = current_size)

\* a line with a keyword of the other lists was classified without a match
\* and the offset has moved past it
C27_Witness ==
  /\ error_keywords = <<>>
  /\ op = "no_match"
  /\ pc = "idle"
  /\ last_position > initLen
  /\ \E i \in 1..Len(file) : file[i].ch = "E" /\ file[i].id \in emitted

\* the bytes of a read that belong to its lines: all but the white space at
\* both ends and the newlines
Content(s) ==
  LET keep == {j \in 1..Len(s) : s[j].ch \notin Whitespace}
  IN  {s[i].id : i \in {j \in 1..Len(s) :
                          /\ s[j].ch # NL
                          /\ \E a, b \in keep : a <= j /\ j <= b}}

\* the bytes of the lines of a batch
BatchIds(lines) == UNION {Ids(lines[i]) : i \in 1..Len(lines)}

\* C28: an on_modified that finds the file smaller than last_position sets
\* last_position to 0; when the file is not empty the same invocation goes on
\* to the read, which takes the file from offset 0 up to the size seen and
\* sets last_position to that size; when the file is empty the invocation
\* ends there with last_position 0 and nothing emitted.
C28_TruncationStep ==
  [][/\ (IsOnModified /\ GetFileSize < last_position) =>
          /\ op' = "truncation"
          /\ last_position' = 0
          /\ current_size' = GetFileSize
          /\ emitted' = emitted
          /\ pc' = (IF GetFileSize > 0 THEN "read" ELSE "idle")
     /\ (op = "truncation" /\ pc = "read" /\ op' = "read") =>
          /\ last_position' = current_size
          /\ BatchIds(new_lines') = Content(SubSeq(file, 1, current_size))
          /\ pc' = (IF new_lines' = <<>> THEN "idle" ELSE "lines")]_vars

\* a truncation to a non-empty file was observed after lines had been
\* emitted, and its content was read from offset 0
C28_Witness ==
  /\ op = "read"
  /\ pc = "lines"
  /\ truncated = "no"
  /\ emitted # {}
  /\ last_position = current_size
  /\ BatchIds(new_lines) = Content(SubSeq(file, 1, current_size))
  /\ BatchIds(new_lines) \cap emitted # {}

\* the line ends at a newline of the file: only blanks, which strip()
\* removes, lie between its last byte and that newline
Terminated(l) ==
  \E i, j \in 1..Len(file) :
    /\ j < i
    /\ file[i].ch = NL
    /\ file[j].id = l[Len(l)].id
    /\ \A k \in (j + 1)..(i - 1) : file[k].ch = SP

\* C29: a read hands on to the classifier only complete, non-blank lines:
\* bytes at the end of the file that no newline follows are not handed on as
\* a line, and no blank line reaches _process_log_line.
C29_CompleteLinesOnly ==
  [][/\ (pc = "read" /\ op' = "read") =>
          \A i \in 1..Len(new_lines') :
            Strip(new_lines'[i]) # <<>> => Terminated(new_lines'[i])
     /\ (pc = "lines" /\ op' \in {"no_match", "alert", "alert_raised"}) =>
          Strip(Head(new_lines)) # <<>>]_vars

C31_NoSendWithoutPermit ==
  [][op' \in {"handle_error", "send_all"} =>
       /\ granted' = Permit(now, last_notification_time)
       /\ (attempted' # {} \/ delivered' # {}) => granted'
       /\ (~granted' /\ op' = "send_all") =>
            ~email_sent' /\ ~slack_sent' /\ ~any_sent']_vars

\* send_all_alerts of a manager with both sinks was denied inside the window
\* of an earlier grant
C31_Witness ==
  /\ op = "send_all"
  /\ ~granted
  /\ email_notifier
  /\ slack_notifier
  /\ prevGrant # None
  /\ now - prevGrant < min_interval
  /\ attempted = {}
  /\ ~any_sent

\* the places of a text where one of the words stands alone, in any case
WholeWords(t, words) ==
  {i \in 1..Len(t) :
     /\ Upper(t[i]) \in words
     /\ (i = 1 \/ t[i - 1] \notin WordChars)
     /\ (i = Len(t) \/ t[i + 1] \notin WordChars)}

\* C32: a line with a severe word and a warning word, each standing alone,
\* gets the severe word as level wherever the two stand; a level word is
\* found in any case and reported in upper case; and when the upper-case
\* level does not occur in the line the message is the whole (trimmed) line.
C32_LevelPrecedence ==
  [][op' = "extract" =>
       LET t == Text(Head(new_lines))
           severe == WholeWords(t, {"E", "F"})
           warning == WholeWords(t, {"W"})
           info == reported'[1]
       IN  /\ (severe # {} /\ warning # {}) =>
                info.level \in {Upper(t[i]) : i \in severe}
           /\ severe # {} => info.level \in {"E", "F"}
           /\ (severe = {} /\ warning # {}) => info.level = "W"
           /\ (\A i \in 1..Len(t) : t[i] # info.level) =>
                info.message = StripOf(t, Whitespace)]_vars

\* a warning line that mentions an error in lower case: level ERROR, and the
\* whole line as message
C32_Witness ==
  /\ op = "extract"
  /\ reported[1].line = <<"W", ":", SP, "e">>
  /\ reported[1].level = "E"
  /\ reported[1].message = reported[1].line

\* C33: on_modified goes past its first test only for an event that is not
\* a directory event and carries the path of the monitored file; for every
\* other event of the watched directory it returns with last_position, the
\* batch and the lines emitted so far as they were, and nothing is sent.
C33_EventFilter ==
  [][/\ \A event \in Events :
          (event.is_directory \/ event.src_path # log_file_path) =>
            ~Accepts(event)
     /\ op' = "filtered" =>
          /\ last_position' = last_position
          /\ current_size' = current_size
          /\ pc' = pc
          /\ new_lines' = new_lines
          /\ emitted' = emitted
          /\ alerted' = alerted
          /\ attempted' = attempted]_vars

\* an event for another entry of the directory arrived while the log file
\* held unread lines, and they stayed unread
C33_Witness ==
  /\ op = "filtered"
  /\ observer = "alive"
  /\ exists
  /\ Len(file) > last_position
  /\ pc = "idle"
  /\ Ids(file) \cap emitted = {}

\* C34: on_modified never ends with an exception: whether the file is
\* missing, cannot be opened or decoded, shrinks before the read, or the
\* callback raises, the handler is idle again afterwards and the observer,
\* while alive, can deliver the next event.
C34_NeverPropagates ==
  /\ pc \in {"idle", "read", "lines"}
  /\ op \in {"read_failed", "alert_raised"} =>
       /\ pc = "idle"
       /\ (observer = "alive" => ENABLED DeliverEvent)
  /\ (op = "read" /\ short_read) => pc \in {"idle", "lines"}

\* a read raised on a file that is there, after an earlier event had been
\* handled down to the callback; the observer is alive and idle
C34_Witness ==
  /\ op = "read_failed"
  /\ exists
  /\ observer = "alive"
  /\ pc = "idle"
  /\ alerted # {}
  /\ Len(file) > last_position

\* C35: the permit is used up by the gate check, not by a delivery. A granted
\* dispatch that delivers nothing (every sink failed, or none is configured)
\* still sets last_notification_time to the time of the call, and a dispatch
\* that follows a grant without delivery inside min_interval is suppressed:
\* no sink is tried for it either.
C35_PermitNotReturned ==
  [][op' \in {"handle_error", "send_all"} =>
       /\ (granted' /\ delivered' = {}) => last_notification_time' = now
       /\ (granted /\ delivered = {} /\ prevGrant # None
             /\ now - prevGrant < min_interval) =>
            /\ ~granted'
            /\ attempted' = {}
            /\ delivered' = {}
            /\ last_notification_time' = last_notification_time]_vars

\* a manager without sinks, so that no grant ever delivered anything: a later
\* error inside the window of such a grant was suppressed
C35_Witness ==
  /\ op = "handle_error"
  /\ ~email_notifier
  /\ ~slack_notifier
  /\ ~granted
  /\ prevGrant # None
  /\ now > prevGrant
  /\ now - prevGrant < min_interval
  /\ last_notification_time = prevGrant

\* position p of the file is the first of its line but for blanks before it
LineStart(p) ==
  \E q \in 1..p :
    /\ (q = 1 \/ file[q - 1].ch = NL)
    /\ \A k \in q..(p - 1) : file[k].ch = SP

\* position p of the file is the last of its line but for blanks after it
LineEnd(p) ==
  \E q \in p..Len(file) :
    /\ (q = Len(file) \/ file[q + 1].ch = NL)
    /\ \A k \in (p + 1)..q : file[k].ch = SP

\* the line of the file that holds position p was begun after construction
BegunAfterInit(p) ==
  \E a \in 1..p :
    /\ a > initLen
    /\ (a = 1 \/ file[a - 1].ch = NL)
    /\ \A k \in a..p : file[k].ch # NL

\* byte n is a non-blank byte of a complete line appended after construction
InCompleteLine(n) ==
  \E p \in 1..Len(file) :
    /\ file[p].id = n
    /\ file[p].ch \notin Whitespace
    /\ \E a \in 1..p, b \in p..Len(file) :
         /\ a > initLen
         /\ (a = 1 \/ file[a - 1].ch = NL)
         /\ b < Len(file)
         /\ file[b + 1].ch = NL
         /\ \A k \in a..b : file[k].ch # NL

\* C36: in a run where the file only grows, no read fails and every change
\* is followed by a handled event, every complete non-blank line appended
\* after construction reaches _process_log_line, as one line and once: its
\* bytes are eventually passed on, what is passed on at a time is a whole
\* line of the file, and nothing is passed on twice.
C36_EveryLineOnce ==
  /\ \A n \in 1..MaxWrites : InCompleteLine(n) ~> (n \in emitted)
  /\ [][(pc = "lines" /\ op' \in {"no_match", "alert"}
           /\ BegunAfterInit(Pos(Head(new_lines)[1].id))) =>
         /\ Ids(Head(new_lines)) \cap emitted = {}
         /\ LineStart(Pos(Head(new_lines)[1].id))
         /\ LineEnd(Pos(Head(new_lines)[Len(Head(new_lines))].id))]_vars

\* C37: an event that finds the log file missing takes its size as 0: the
\* offset goes (or stays) to 0, nothing is read or emitted, and an event that
\* later finds a file there reads it from offset 0. A read that raises leaves
\* last_position as it was and emits nothing, and the next event that finds
\* the file larger than that offset starts its read from the same offset.
C37_MissingFileAndReadFailure ==
  [][/\ (IsOnModified /\ ~exists) =>
          /\ current_size' = 0
          /\ last_position' = 0
          /\ pc' = "idle"
          /\ new_lines' = new_lines
          /\ emitted' = emitted
     /\ (IsOnModified /\ exists /\ last_position = 0 /\ Len(file) > 0) =>
          /\ last_position' = 0
          /\ current_size' = Len(file)
          /\ pc' = "read"
     /\ op' = "read_failed" =>
          /\ last_position' = last_position
          /\ new_lines' = new_lines
          /\ emitted' = emitted
          /\ pc' = "idle"
     /\ (op = "read_failed" /\ IsOnModified /\ GetFileSize > last_position) =>
          /\ last_position' = last_position
          /\ current_size' = GetFileSize
          /\ pc' = "read"]_vars

\* an event found the file missing after lines of it had been emitted, and
\* the offset went back to 0
C37_Witness ==
  /\ op = "truncation"
  /\ ~exists
  /\ observer = "alive"
  /\ last_position = 0
  /\ current_size = 0
  /\ pc = "idle"
  /\ emitted # {}

\* C38: with min_interval = 0 the limiter grants every check (the clock
\* never goes back), so every line handed to the callback is dispatched: each
\* configured sink is tried for it, also when several lines are detected at
\* the same clock value.
C38_ZeroInterval ==
  (min_interval = 0 /\ op = "alert") =>
    /\ granted
    /\ attempted = Configured
    /\ last_notification_time = now
    /\ prevGrant = now

\* two lines were detected at the same clock value and the second was
\* dispatched like the first
C38_Witness ==
  /\ min_interval = 0
  /\ op = "alert"
  /\ now = ClockStart
  /\ Cardinality(alerted) = 2
  /\ granted
  /\ attempted = {"email", "slack"}

\* C39: last_position holds 0 or a size that a size check of the handler
\* saw: the size at construction, then only the size on_modified handed to
\* the read. It goes down only when on_modified sees a truncation, and then
\* to 0; between two such resets it never decreases.
C39_PositionValues ==
  [][/\ (op = "init" => last_position = initLen)
     /\ (current_size' # current_size =>
           IsOnModified /\ current_size' = GetFileSize)
     /\ (last_position' # last_position =>
           \/ IsOnModified /\ op' = "truncation" /\ last_position' = 0
           \/ pc = "read" /\ op' = "read" /\ last_position' = current_size
                /\ last_position' > last_position)]_vars

\* after earlier lines had been emitted, the offset moved on to the size
\* seen although the read was short: it is larger than the file
C39_Witness ==
  /\ op = "read"
  /\ short_read
  /\ last_position = current_size
  /\ last_position > Len(file)
  /\ emitted # {}

====
